---- MODULE Spec2Model ----
(***************************************************************************)
(* Query and context-assembly engine of whatsapp-mcp-go (main.go).         *)
(*                                                                         *)
(* The store holds two tables, chats and messages, written only by the     *)
(* external bridge.  Every operation of main.go opens the store, issues    *)
(* its SQL queries and returns; each is one action here.  SQL is modelled  *)
(* by what it computes: JOIN, WHERE, ORDER BY, LIMIT/OFFSET and LIKE.      *)
(* Where SQL leaves the outcome open (the order of rows with equal sort    *)
(* keys, the row QueryRow takes among several) every outcome is allowed.   *)
(*                                                                         *)
(* Text is a sequence of one-character strings.  A stored timestamp is a   *)
(* code: the codes 0..MaxT stand for well-formed RFC3339 texts of one      *)
(* zone, in chronological (= textual) order; any other code is a text      *)
(* that time.Parse rejects.  An absent (NULL / nil) value is <<>>, a       *)
(* present one <<v>>.                                                      *)
(***************************************************************************)
EXTENDS Integers, Sequences, FiniteSets, TLC

VARIABLES chats, messages, call, result, prev

vars == <<chats, messages, call, result, prev>>

(***************************************************************************)
(* Bounds of the model.                                                    *)
(***************************************************************************)
MaxT == 2
MaxMsgs == 4
MaxCtx == 2
MaxLimit == 2
MaxPage == 2

Min(a, b) == IF a < b THEN a ELSE b
Max(a, b) == IF a > b THEN a ELSE b

(***************************************************************************)
(* Data.                                                                   *)
(***************************************************************************)
JidAlice == <<"1", "@", "s">>
JidGroup == <<"2", "@", "g", ".", "u", "s">>
NameAlice == <<"A", "l">>
NameGroup == <<"G", "r">>
Jids == {JidAlice, JidGroup}

ValidTimes == 0 .. MaxT
MalformedTime == MaxT + 1

\* Message: the columns of table messages that main.go reads.
MessageOf(jid, id, ts, sender, content, fromMe, media) ==
    [chat_jid |-> jid, id |-> id, timestamp |-> ts, sender |-> sender,
     content |-> content, is_from_me |-> fromMe, media_type |-> media]

\* Chat: the columns of table chats that main.go reads.
ChatOf(jid, name, lmt) ==
    [jid |-> jid, name |-> name, last_message_time |-> lmt]

\* time.Parse(time.RFC3339, s): the instant of a well-formed text, else an error.
TimeParse(s) ==
    IF s \in ValidTimes THEN [ok |-> TRUE, t |-> s] ELSE [ok |-> FALSE, t |-> 0]

(***************************************************************************)
(* SQL.                                                                    *)
(***************************************************************************)
Uppers == <<"A", "B", "C", "D", "E", "F", "G", "H", "I", "J", "K", "L", "M",
            "N", "O", "P", "Q", "R", "S", "T", "U", "V", "W", "X", "Y", "Z">>
Lowers == <<"a", "b", "c", "d", "e", "f", "g", "h", "i", "j", "k", "l", "m",
            "n", "o", "p", "q", "r", "s", "t", "u", "v", "w", "x", "y", "z">>

\* LOWER() on one character (ASCII letters only, as in SQLite).
LowerChar(c) ==
    IF \E i \in 1 .. Len(Uppers) : Uppers[i] = c
    THEN Lowers[CHOOSE i \in 1 .. Len(Uppers) : Uppers[i] = c]
    ELSE c

SqlLower(s) == [i \in 1 .. Len(s) |-> LowerChar(s[i])]

\* s LIKE p: "%" matches any run of characters, "_" any one character, a
\* letter matches itself in either case.
RECURSIVE SqlLike(_, _)
SqlLike(s, p) ==
    IF p = <<>> THEN s = <<>>
    ELSE IF Head(p) = "%"
         THEN \E k \in 0 .. Len(s) : SqlLike(SubSeq(s, k + 1, Len(s)), Tail(p))
         ELSE /\ s # <<>>
              /\ \/ Head(p) = "_"
                 \/ LowerChar(Head(p)) = LowerChar(Head(s))
              /\ SqlLike(Tail(s), Tail(p))

\* FROM messages JOIN chats ON messages.chat_jid = chats.jid, with the
\* columns every message query of main.go selects.
JoinedRows(msgs, chs) ==
    {[timestamp |-> m.timestamp, sender |-> m.sender, chat_name |-> c.name,
      content |-> m.content, is_from_me |-> m.is_from_me, chat_jid |-> c.jid,
      id |-> m.id, media_type |-> m.media_type] :
        <<m, c>> \in {mc \in msgs \X chs : mc[1].chat_jid = mc[2].jid}}

\* ORDER BY timestamp ASC: every sequence of the rows in which timestamps
\* never decrease (rows of equal timestamp come in any order).
RECURSIVE OrderAsc(_)
OrderAsc(rows) ==
    IF rows = {} THEN {<<>>}
    ELSE LET lo == {r \in rows : \A q \in rows : r.timestamp <= q.timestamp}
         IN  UNION {{<<r>> \o s : s \in OrderAsc(rows \ {r})} : r \in lo}

\* ORDER BY timestamp DESC.
RECURSIVE OrderDesc(_)
OrderDesc(rows) ==
    IF rows = {} THEN {<<>>}
    ELSE LET hi == {r \in rows : \A q \in rows : r.timestamp >= q.timestamp}
         IN  UNION {{<<r>> \o s : s \in OrderDesc(rows \ {r})} : r \in hi}

\* As SqlLimit, with the LIMIT clause left out.
SqlLimitUnbounded(s, n, off) == SubSeq(s, Max(off, 0) + 1, Len(s))

\* LIMIT n OFFSET off on an ordered result (a negative LIMIT is no limit, a
\* negative OFFSET is 0).
SqlLimit(s, n, off) ==
    LET o == Max(off, 0)
        last == IF n < 0 THEN Len(s) ELSE Min(o + n, Len(s))
    IN  SubSeq(s, o + 1, last)

\* The rows.Next() loop: each row's timestamp is parsed, and the first one
\* that fails ends the whole call with that error.
AllParse(s) == \A i \in 1 .. Len(s) : TimeParse(s[i].timestamp).ok

(***************************************************************************)
(* getMessageContext                                                       *)
(***************************************************************************)
\* As NoContext, with an error text that does not name the identifier.
NoContextUnnamed(err, id) ==
    [err |-> err, err_id |-> <<>>, message |-> <<>>, before |-> <<>>, after |-> <<>>]

\* return nil, err
NoContext(err, id) ==
    [err |-> err, err_id |-> id, message |-> <<>>, before |-> <<>>, after |-> <<>>]

\* As BeforeRows, without the chat_jid clause.
BeforeRowsAnyChat(rows, target, n) ==
    {SqlLimit(s, n, 0) : s \in OrderDesc({r \in rows : r.timestamp < target.timestamp})}

\* "Get messages before": the target's chat, strictly earlier, newest first.
BeforeRows(rows, target, n) ==
    {SqlLimit(s, n, 0) :
        s \in OrderDesc({r \in rows : /\ r.chat_jid = target.chat_jid
                                      /\ r.timestamp < target.timestamp})}

\* "Get messages after": the target's chat, strictly later, oldest first.
AfterRows(rows, target, n) ==
    {SqlLimit(s, n, 0) :
        s \in OrderAsc({r \in rows : /\ r.chat_jid = target.chat_jid
                                     /\ r.timestamp > target.timestamp})}

\* Every outcome of getMessageContext(messageID, before, after) on a store.
GetMessageContext(msgs, chs, messageID, before, after) ==
    LET rows == JoinedRows(msgs, chs)
        targets == {r \in rows : r.id = messageID}
    IN  IF targets = {} THEN {NoContext("not_found", <<messageID>>)}
        ELSE UNION {
               IF ~TimeParse(t.timestamp).ok THEN {NoContext("parse", <<>>)}
               ELSE UNION {
                      IF ~AllParse(b) THEN {NoContext("parse", <<>>)}
                      ELSE {IF ~AllParse(a) THEN NoContext("parse", <<>>)
                            ELSE [err |-> "none", err_id |-> <<>>,
                                  message |-> <<t>>, before |-> b, after |-> a] :
                               a \in AfterRows(rows, t, after)} :
                      b \in BeforeRows(rows, t, before)} :
               t \in targets}

(***************************************************************************)
(* listMessages                                                            *)
(***************************************************************************)
\* As ListError, with an error text that does not carry the offending value.
ListErrorUnnamed(err, field, date, queries) ==
    [err |-> err, err_field |-> field, err_date |-> <<>>, queries |-> queries,
     matched |-> <<>>, out |-> <<>>]

\* return "", err
ListError(err, field, date, queries) ==
    [err |-> err, err_field |-> field, err_date |-> date, queries |-> queries,
     matched |-> <<>>, out |-> <<>>]

\* As ListWhere, with inclusive time bounds.
ListWhereInclusive(r, after, before, sender, chatJID, query) ==
    /\ after # <<>> => r.timestamp >= TimeParse(after[1]).t
    /\ before # <<>> => r.timestamp <= TimeParse(before[1]).t
    /\ sender # <<>> => r.sender = sender[1]
    /\ chatJID # <<>> => r.chat_jid = chatJID[1]
    /\ query # <<>> =>
         SqlLike(SqlLower(r.content), SqlLower(<<"%">> \o query[1] \o <<"%">>))

\* The WHERE clause: the conjunction of the clauses of the supplied filters.
ListWhere(r, after, before, sender, chatJID, query) ==
    /\ after # <<>> => r.timestamp > TimeParse(after[1]).t
    /\ before # <<>> => r.timestamp < TimeParse(before[1]).t
    /\ sender # <<>> => r.sender = sender[1]
    /\ chatJID # <<>> => r.chat_jid = chatJID[1]
    /\ query # <<>> =>
         SqlLike(SqlLower(r.content), SqlLower(<<"%">> \o query[1] \o <<"%">>))

\* As ListPage, with the page index taken for the row offset.
ListPageOffsetPage(rows, limit, page) ==
    {SqlLimit(s, limit, page) : s \in OrderDesc(rows)}

\* ORDER BY messages.timestamp DESC LIMIT limit OFFSET page * limit.
ListPage(rows, limit, page) ==
    {SqlLimit(s, limit, page * limit) : s \in OrderDesc(rows)}

\* One matched message expanded: its window, or nothing when
\* getMessageContext fails (the loop continues).
ContextWindow(msgs, chs, m, contextBefore, contextAfter) ==
    {IF c.err # "none" THEN <<>> ELSE c.before \o c.message \o c.after :
        c \in GetMessageContext(msgs, chs, m.id, contextBefore, contextAfter)}

\* "Add context for each message": the windows, appended in the matches' order.
RECURSIVE WithContext(_, _, _, _, _)
WithContext(msgs, chs, matched, contextBefore, contextAfter) ==
    IF matched = <<>> THEN {<<>>}
    ELSE {w \o rest :
            w \in ContextWindow(msgs, chs, Head(matched), contextBefore, contextAfter),
            rest \in WithContext(msgs, chs, Tail(matched), contextBefore, contextAfter)}

\* Every outcome of listMessages(...) on a store: the messages handed to
\* formatMessagesList, or the error.
ListMessages(msgs, chs, after, before, sender, chatJID, query, limit, page, includeContext, contextBefore, contextAfter) ==
    IF after # <<>> /\ ~TimeParse(after[1]).ok
    THEN {ListError("invalid_date", "after", after, 0)}
    ELSE IF before # <<>> /\ ~TimeParse(before[1]).ok
    THEN {ListError("invalid_date", "before", before, 0)}
    ELSE LET rows == {r \in JoinedRows(msgs, chs) :
                         ListWhere(r, after, before, sender, chatJID, query)}
         IN  UNION {
               IF ~AllParse(s) THEN {ListError("parse", "", <<>>, 1)}
               ELSE {[err |-> "none", err_field |-> "", err_date |-> <<>>,
                      queries |-> 1, matched |-> s, out |-> o] :
                       o \in IF includeContext /\ Len(s) > 0
                             THEN WithContext(msgs, chs, s, contextBefore, contextAfter)
                             ELSE {s}} :
               s \in ListPage(rows, limit, page)}

(***************************************************************************)
(* The bridge (external writer of the store) and the server loop.          *)
(***************************************************************************)
NoCall == [op |-> "none"]
NoResult == [err |-> "none"]

\* The bridge stores one received message and touches its chat.  Every
\* operation below is one atomic read of the store, so a result is kept
\* beside the store it was read from: the bridge writes between requests.
BridgeInsert(keys, times, senders, contents, maxMsgs) ==
    /\ call = NoCall
    /\ Cardinality(messages) < maxMsgs
    /\ \E k \in keys, ts \in times, s \in senders, c \in contents :
         /\ \A m \in messages : <<m.chat_jid, m.id>> # k
         /\ \E ch \in chats : ch.jid = k[1]
         /\ messages' = messages \cup {MessageOf(k[1], k[2], ts, s, c, FALSE, <<>>)}
         /\ chats' = {IF ch.jid = k[1] THEN ChatOf(ch.jid, ch.name, <<ts>>) ELSE ch :
                         ch \in chats}
    /\ UNCHANGED <<call, result, prev>>

\* The handler's result has been sent; the server waits for the next request.
Reply ==
    /\ call # NoCall
    /\ call' = NoCall
    /\ result' = NoResult
    /\ prev' = <<>>
    /\ UNCHANGED <<chats, messages>>

Init ==
    /\ chats = {ChatOf(JidAlice, <<NameAlice>>, <<>>), ChatOf(JidGroup, <<NameGroup>>, <<>>)}
    /\ messages = {}
    /\ call = NoCall
    /\ result = NoResult
    /\ prev = <<>>

\* get_message_context(message_id, before, after)
GetMessageContextCall(ids, counts) ==
    /\ call = NoCall
    /\ \E id \in ids, b \in counts, a \in counts :
        /\ call' = [op |-> "getMessageContext", message_id |-> id, before |-> b, after |-> a]
        /\ result' \in GetMessageContext(messages, chats, id, b, a)
    /\ UNCHANGED <<chats, messages, prev>>

\* list_messages(filter, limit, page, include_context, context_before, context_after)
ListMessagesCall(filters, limits, pages, ctxs) ==
    /\ call = NoCall
    /\ \E f \in filters, l \in limits, p \in pages, c \in ctxs :
        /\ call' = [op |-> "listMessages", filter |-> f, limit |-> l, page |-> p,
                    include_context |-> c.include, context_before |-> c.before,
                    context_after |-> c.after]
        /\ result' \in ListMessages(messages, chats, f.after, f.before, f.sender,
                                    f.chat_jid, f.query, l, p,
                                    c.include, c.before, c.after)
    /\ UNCHANGED <<chats, messages, prev>>

\* The caller of list_messages(limit = L, page = P) asks again, on the same
\* store, for the first L * (P + 1) rows of the same query.
ListMessagesRequery ==
    /\ call.op = "listMessages" /\ result.err = "none" /\ prev = <<>>
    /\ ~call.include_context
    /\ call' = [call EXCEPT !.limit = call.limit * (call.page + 1), !.page = 0]
    /\ result' \in ListMessages(messages, chats, call.filter.after, call.filter.before,
                                call.filter.sender, call.filter.chat_jid, call.filter.query,
                                call.limit * (call.page + 1), 0, FALSE, 0, 0)
    /\ prev' = <<[call |-> call, result |-> result]>>
    /\ UNCHANGED <<chats, messages>>

(***************************************************************************)
(* SpecCtx: get_message_context on a store of up to MaxMsgs messages, one  *)
(* chat holding up to three of them and an identifier shared by two chats. *)
(* The bridge writes well-formed timestamps only.                          *)
(***************************************************************************)
CtxKeys == {<<JidAlice, "m1">>, <<JidAlice, "m2">>, <<JidAlice, "m3">>, <<JidGroup, "m1">>}
CtxIds == {"m1", "m2", "m3", "m9"}

CtxInsert == BridgeInsert(CtxKeys, ValidTimes, {<<"1">>}, {<<"h", "i">>}, MaxMsgs)
CtxGet == GetMessageContextCall(CtxIds, 0 .. MaxCtx)

NextCtx == CtxInsert \/ CtxGet \/ Reply

SpecCtx == Init /\ [][NextCtx]_vars

(***************************************************************************)
(* SpecList: list_messages on a store of up to two messages in two chats,  *)
(* under every filter of at most MaxFilters supplied fields, without       *)
(* context and with one message of context on either side.                 *)
(***************************************************************************)
MaxFilters == 2

Opt(S) == {<<>>} \cup {<<x>> : x \in S}
Supplied(f) ==
    Cardinality({k \in {"after", "before", "sender", "chat_jid", "query"} : f[k] # <<>>})

ListKeys == {<<JidAlice, "m1">>, <<JidGroup, "m2">>}
ListSenders == {<<"1">>, <<"7">>}
ListContents == {<<"h", "i">>, <<"Y", "o">>}
ListQueries == {<<"I">>, <<"_">>}
DateInputs == ValidTimes \cup {MalformedTime}
ListFilters ==
    {f \in [after : Opt(DateInputs), before : Opt(DateInputs), sender : Opt(ListSenders),
            chat_jid : Opt(Jids), query : Opt(ListQueries)] : Supplied(f) <= MaxFilters}
NoContextArgs == {[include |-> FALSE, before |-> 0, after |-> 0]}

ListInsert == BridgeInsert(ListKeys, ValidTimes, ListSenders, ListContents, MaxMsgs)
ListContextArgs == NoContextArgs \cup {[include |-> TRUE, before |-> 1, after |-> 1]}
ListList == ListMessagesCall(ListFilters, {1, MaxLimit}, {0, 1}, ListContextArgs)

NextList == ListInsert \/ ListList \/ Reply

SpecList == Init /\ [][NextList]_vars

(***************************************************************************)
(* SpecPage: list_messages with and without context, page by page, on the  *)
(* store of SpecCtx, for all messages or those of one chat.                *)
(***************************************************************************)
PageFilters ==
    {[after |-> <<>>, before |-> <<>>, sender |-> <<>>, chat_jid |-> c, query |-> <<>>] :
        c \in Opt({JidAlice})}
PageContextArgs ==
    NoContextArgs \cup
    {[include |-> TRUE, before |-> b, after |-> a] : b \in 0 .. MaxCtx, a \in 0 .. MaxCtx}

PageList == ListMessagesCall(PageFilters, 1 .. MaxLimit, 0 .. MaxPage, PageContextArgs)

NextPage == CtxInsert \/ PageList \/ ListMessagesRequery \/ Reply

SpecPage == Init /\ [][NextPage]_vars

(***************************************************************************)
(* Properties of get_message_context.                                      *)
(***************************************************************************)
CtxOK == call.op = "getMessageContext" /\ result.err = "none"
Target == result.message[1]
Key(r) == <<r.chat_jid, r.id>>
KeysOf(s) == {Key(s[i]) : i \in 1 .. Len(s)}
Ascending(s) == \A i \in 1 .. Len(s) - 1 : s[i].timestamp <= s[i + 1].timestamp
Descending(s) == \A i \in 1 .. Len(s) - 1 : s[i].timestamp >= s[i + 1].timestamp

\* The stored messages of the target's chat strictly earlier / later than it.
Earlier == {m \in messages : m.chat_jid = Target.chat_jid /\ m.timestamp < Target.timestamp}
Later == {m \in messages : m.chat_jid = Target.chat_jid /\ m.timestamp > Target.timestamp}

\* window holds exactly min(n, |cands|) distinct messages of cands, and none
\* of the messages left out is nearer to the target than one taken.
NearestOf(window, cands, n, nearer(_, _)) ==
    /\ Len(window) = Min(n, Cardinality(cands))
    /\ Cardinality(KeysOf(window)) = Len(window)
    /\ \A i \in 1 .. Len(window) :
         \E m \in cands : Key(m) = Key(window[i]) /\ m.timestamp = window[i].timestamp
    /\ \A m \in cands : Key(m) \notin KeysOf(window) =>
         \A i \in 1 .. Len(window) : ~nearer(m.timestamp, window[i].timestamp)

\* C1: for a resolvable messageID, before ++ [target] ++ after is in ascending
\* timestamp order, also when before holds two or more messages.
C1_ConcatAscending ==
    CtxOK => Ascending(result.before \o result.message \o result.after)

\* C5: the before window is exactly the min(b, k) most recent strictly earlier
\* messages of the target's chat and the after window the min(a, k') earliest
\* strictly later ones; no message of another chat and none with the
\* target's timestamp is in either.
C5_ExactWindows ==
    CtxOK =>
        /\ NearestOf(result.before, Earlier, call.before, LAMBDA x, y : x > y)
        /\ NearestOf(result.after, Later, call.after, LAMBDA x, y : x < y)

C5_Witness ==
    /\ CtxOK
    /\ call.before = 1 /\ Cardinality(Earlier) = 2 /\ Len(result.before) = 1
    /\ \E m \in messages : m.chat_jid # Target.chat_jid /\ m.timestamp < Target.timestamp

C7_NotFound ==
    call.op = "getMessageContext" =>
        /\ (\A m \in messages : m.id # call.message_id) =>
              /\ result.err = "not_found"
              /\ result.err_id = <<call.message_id>>
              /\ result.message = <<>> /\ result.before = <<>> /\ result.after = <<>>
        /\ result.err = "none" => Target.id = call.message_id

C7_Witness ==
    /\ call.op = "getMessageContext"
    /\ messages # {}
    /\ \A m \in messages : m.id # call.message_id
    /\ result.err = "not_found"

(***************************************************************************)
(* Properties of list_messages.                                            *)
(***************************************************************************)
ListOK == call.op = "listMessages" /\ result.err = "none"
WellFormed(d) == d = <<>> \/ d[1] \in ValidTimes

\* q occurs in s as a substring, letters compared without regard to case.
Contains(s, q) ==
    \E k \in 0 .. Len(s) - Len(q) :
        \A i \in 1 .. Len(q) : LowerChar(s[k + i]) = LowerChar(q[i])

\* The stored message a result row shows.
Shows(r, m) ==
    /\ Key(r) = Key(m) /\ r.timestamp = m.timestamp
    /\ r.sender = m.sender /\ r.content = m.content

\* out is the page (limit, page) of some timestamp-descending listing of the
\* stored messages of cands: as many rows as the page holds, each a distinct
\* message of cands, newest first, everything newer than a row being on this
\* page or on an earlier one.
IsPageOf(out, cands, limit, page) ==
    /\ Len(out) = Max(0, Min(limit, Cardinality(cands) - page * limit))
    /\ Cardinality(KeysOf(out)) = Len(out)
    /\ \A i \in 1 .. Len(out) : \E m \in cands : Shows(out[i], m)
    /\ Descending(out)
    /\ \A i \in 1 .. Len(out) :
         Cardinality({m \in cands : m.timestamp > out[i].timestamp}) <= page * limit + i - 1
    /\ \A i \in 1 .. Len(out) :
         Cardinality({m \in cands : m.timestamp >= out[i].timestamp}) >= page * limit + i

\* C2: without context, listMessages returns exactly messages that satisfy
\* every supplied predicate (after, before, sender, chatID, textQuery as a
\* case-insensitive substring of content), newest first; with no filter,
\* limit 1 and page 0 it returns only the newest message.
C2_FilteredDescending ==
    (call.op = "listMessages" /\ ~call.include_context
        /\ WellFormed(call.filter.after) /\ WellFormed(call.filter.before)) =>
        LET f == call.filter
            sat == {m \in messages :
                      /\ f.after # <<>> => m.timestamp > f.after[1]
                      /\ f.before # <<>> => m.timestamp < f.before[1]
                      /\ f.sender # <<>> => m.sender = f.sender[1]
                      /\ f.chat_jid # <<>> => m.chat_jid = f.chat_jid[1]
                      /\ f.query # <<>> => Contains(m.content, f.query[1])}
        IN  /\ result.err = "none"
            /\ IsPageOf(result.out, sat, call.limit, call.page)

C10_InvalidDate ==
    call.op = "listMessages" =>
        LET f == call.filter
        IN  /\ ~WellFormed(f.after) =>
                 /\ result.err = "invalid_date" /\ result.err_field = "after"
                 /\ result.err_date = f.after
                 /\ result.out = <<>> /\ result.queries = 0
            /\ (WellFormed(f.after) /\ ~WellFormed(f.before)) =>
                 /\ result.err = "invalid_date" /\ result.err_field = "before"
                 /\ result.err_date = f.before
                 /\ result.out = <<>> /\ result.queries = 0
            /\ result.err = "invalid_date" => ~WellFormed(f.after) \/ ~WellFormed(f.before)

C10_Witness ==
    /\ call.op = "listMessages"
    /\ messages # {}
    /\ call.filter.after # <<>> /\ WellFormed(call.filter.after)
    /\ ~WellFormed(call.filter.before)
    /\ result.err = "invalid_date"

\* C3: for every limit and page and every filter, whatever includeContext,
\* contextBefore and contextAfter are, listMessages returns at most limit
\* messages.
C3_AtMostLimit == ListOK => Len(result.out) <= call.limit

\* What the code keeps instead: at most limit matches, each expanded to at
\* most contextBefore + 1 + contextAfter messages.
OutputWithinWindows ==
    ListOK =>
        /\ Len(result.matched) <= call.limit
        /\ ~call.include_context => Len(result.out) <= call.limit
        /\ call.include_context =>
             Len(result.out) <= call.limit * (call.context_before + 1 + call.context_after)

\* The first call of a pair (limit L, page P) then (limit L * (P + 1), page 0).
First == prev[1]
DistinctTimes(rows) ==
    \A m \in rows, n \in rows : m.timestamp = n.timestamp => m = n
Matching(f) == {m \in messages : f.chat_jid # <<>> => m.chat_jid = f.chat_jid[1]}

RECURSIVE SplitsIntoWindows(_, _, _)
SplitsIntoWindows(out, matched, size) ==
    IF matched = <<>> THEN out = <<>>
    ELSE \E k \in 1 .. Min(size, Len(out)) :
            /\ Ascending(SubSeq(out, 1, k))
            /\ \E j \in 1 .. k : out[j] = Head(matched)
            /\ SplitsIntoWindows(SubSeq(out, k + 1, Len(out)), Tail(matched), size)

\* C8: with includeContext the output is the concatenation, in the matches'
\* (descending) order, of one window per match, each window
\* before ++ [match] ++ after ascending and holding its match, nothing
\* removed across windows.
C8_WindowsConcatenated ==
    (ListOK /\ call.include_context) =>
        /\ Descending(result.matched)
        /\ SplitsIntoWindows(result.out, result.matched,
                             call.context_before + 1 + call.context_after)

(***************************************************************************)
(* The single-message lookups and the example program's listing.           *)
(***************************************************************************)
\* The rows of s whose stored timestamp parses, in s's order.
RECURSIVE ParsedOnly(_)
ParsedOnly(s) ==
    IF s = <<>> THEN <<>>
    ELSE IF TimeParse(Head(s).timestamp).ok THEN <<Head(s)>> \o ParsedOnly(Tail(s))
         ELSE ParsedOnly(Tail(s))

\* getLastNMessages(n): the n most recent rows; a row that does not parse
\* is left out (continue) and the call succeeds.
GetLastNMessages(msgs, chs, n) ==
    {[err |-> "none", out |-> ParsedOnly(SqlLimit(s, n, 0))] :
        s \in OrderDesc(JoinedRows(msgs, chs))}

\* The first row of an ORDER BY timestamp DESC LIMIT 1 query over rows.
TopRows(rows) == {Head(s) : s \in {o \in OrderDesc(rows) : o # <<>>}}

\* As LastOf, but a row that does not parse is passed over for an older one.
LastOfSkipping(rows, none) ==
    IF {r \in rows : TimeParse(r.timestamp).ok} = {}
    THEN {[err |-> none, out |-> <<>>]}
    ELSE {[err |-> "none", out |-> <<t>>] :
            t \in TopRows({r \in rows : TimeParse(r.timestamp).ok})}

\* QueryRow + Scan + time.Parse of the most recent of rows: no row gives
\* the outcome none, a row that does not parse gives an error.
LastOf(rows, none) ==
    IF rows = {} THEN {[err |-> none, out |-> <<>>]}
    ELSE {IF TimeParse(t.timestamp).ok THEN [err |-> "none", out |-> <<t>>]
          ELSE [err |-> "parse", out |-> <<>>] : t \in TopRows(rows)}

\* getLastInteraction(jid): sql.ErrNoRows is answered with "", nil.
GetLastInteraction(msgs, chs, jid) ==
    LastOf({r \in JoinedRows(msgs, chs) : r.sender = jid \/ r.chat_jid = jid}, "none")

\* getLastMessage(): every Scan error, sql.ErrNoRows included, is answered
\* with the error "no messages found".
GetLastMessage(msgs, chs) == LastOf(JoinedRows(msgs, chs), "no_messages")

\* get_last_interaction(jid)
GetLastInteractionCall(jids) ==
    /\ call = NoCall
    /\ \E j \in jids :
        /\ call' = [op |-> "getLastInteraction", jid |-> j]
        /\ result' \in GetLastInteraction(messages, chats, j)
    /\ UNCHANGED <<chats, messages, prev>>

\* getLastMessage()
GetLastMessageCall ==
    /\ call = NoCall
    /\ call' = [op |-> "getLastMessage"]
    /\ result' \in GetLastMessage(messages, chats)
    /\ UNCHANGED <<chats, messages, prev>>

\* getLastNMessages(n)
GetLastNMessagesCall(counts) ==
    /\ call = NoCall
    /\ \E n \in counts :
        /\ call' = [op |-> "getLastNMessages", n |-> n]
        /\ result' \in GetLastNMessages(messages, chats, n)
    /\ UNCHANGED <<chats, messages, prev>>

(***************************************************************************)
(* SpecLast: a store of up to three messages in two chats whose stored     *)
(* timestamps may be malformed, read by list_messages without filter,      *)
(* get_message_context, the example listing and the two lookups.           *)
(***************************************************************************)
LastKeys == {<<JidAlice, "m1">>, <<JidAlice, "m2">>, <<JidGroup, "m3">>}
LastSenders == {<<"1">>, <<"7">>}
LastJids == {JidAlice, JidGroup, <<"7">>, <<"9">>}
NoFilter == [after |-> <<>>, before |-> <<>>, sender |-> <<>>, chat_jid |-> <<>>, query |-> <<>>]

LastInsert == BridgeInsert(LastKeys, ValidTimes \cup {MalformedTime}, LastSenders, {<<"h", "i">>}, MaxMsgs)
LastList == ListMessagesCall({NoFilter}, 1 .. MaxLimit, {0}, NoContextArgs)
LastContext == GetMessageContextCall({"m1", "m2", "m3"}, 0 .. 1)
LastN == GetLastNMessagesCall(1 .. MaxLimit)
LastInteraction == GetLastInteractionCall(LastJids)

NextLast ==
    \/ LastInsert
    \/ LastList
    \/ LastContext
    \/ LastN
    \/ LastInteraction
    \/ GetLastMessageCall
    \/ Reply

SpecLast == Init /\ [][NextLast]_vars

\* The stored messages, as joined rows, that the call's candidates are.
LastCandidates ==
    IF call.op = "getLastInteraction"
    THEN {r \in JoinedRows(messages, chats) : r.sender = call.jid \/ r.chat_jid = call.jid}
    ELSE JoinedRows(messages, chats)
Malformed(rows) == {r \in rows : ~TimeParse(r.timestamp).ok}
Newest(rows) == {r \in rows : \A o \in rows : o.timestamp <= r.timestamp}

\* C11: a row whose stored timestamp does not parse is skipped by
\* list_messages, by the windows of get_message_context and by
\* getLastNMessages: the call succeeds and returns the rows that parse, in
\* their order.
C11_MalformedRowSkipped ==
    /\ (call.op = "listMessages") =>
          /\ result.err = "none"
          /\ Descending(result.out) /\ AllParse(result.out)
    /\ (call.op = "getMessageContext"
          /\ (\E t \in messages : t.id = call.message_id)
          /\ \A m \in messages : m.id = call.message_id => TimeParse(m.timestamp).ok) =>
          /\ result.err = "none"
          /\ AllParse(result.before) /\ AllParse(result.after)
    /\ (call.op = "getLastNMessages") =>
          /\ result.err = "none"
          /\ Descending(result.out) /\ AllParse(result.out)

\* The lookup answers with the newest candidate, and with the error of an
\* unparsable timestamp when the newest candidate's does not parse.
LastAnswersNewest ==
    IF Newest(LastCandidates) \subseteq Malformed(LastCandidates)
    THEN result.err = "parse" /\ result.out = <<>>
    ELSE /\ result.err = "none" /\ Len(result.out) = 1
         /\ result.out[1] \in Newest(LastCandidates)

\* C12 as stated: both lookups answer a store without candidate with an
\* absent result and no error.
C12_AbsentWithoutCandidate ==
    (call.op \in {"getLastInteraction", "getLastMessage"}) =>
        IF LastCandidates = {} THEN result.err = "none" /\ result.out = <<>>
        ELSE LastAnswersNewest

\* C12: get_last_interaction(jid) and getLastMessage answer with the
\* candidate of greatest stored timestamp (sent by jid or in the chat jid;
\* every message for getLastMessage) and fail when that row's timestamp
\* does not parse; without candidate get_last_interaction answers absent
\* with no error, and getLastMessage fails with "no messages found".
C12_NewestOrAbsent ==
    (call.op \in {"getLastInteraction", "getLastMessage"}) =>
        IF LastCandidates = {}
        THEN /\ result.out = <<>>
             /\ result.err = IF call.op = "getLastMessage" THEN "no_messages" ELSE "none"
        ELSE LastAnswersNewest

C12_Witness ==
    /\ call.op = "getLastInteraction"
    /\ result.err = "parse"
    /\ LastCandidates # Malformed(LastCandidates)

(***************************************************************************)
(* The chat queries.                                                       *)
(***************************************************************************)
\* The store compares text byte by byte: the characters in code order.
Ascii == <<"%", ".", "0", "1", "2", "3", "4", "5", "6", "7", "8", "9", "@">> \o Uppers \o <<"_">> \o Lowers
CharCode(c) == CHOOSE i \in 1 .. Len(Ascii) : Ascii[i] = c

RECURSIVE TextLess(_, _)
TextLess(a, b) ==
    IF b = <<>> THEN FALSE
    ELSE IF a = <<>> THEN TRUE
    ELSE IF Head(a) = Head(b) THEN TextLess(Tail(a), Tail(b))
    ELSE CharCode(Head(a)) < CharCode(Head(b))

\* One result row of a chat query: the chat's columns beside those of the
\* joined message om (none: the columns are NULL).  mid tells apart the
\* rows that two joined messages with equal columns give.
ChatRow(c, om) ==
    [jid |-> c.jid, name |-> c.name, last_message_time |-> c.last_message_time,
     last_message |-> IF om = <<>> THEN <<>> ELSE <<om[1].content>>,
     last_sender |-> IF om = <<>> THEN <<>> ELSE <<om[1].sender>>,
     last_is_from_me |-> IF om = <<>> THEN <<>> ELSE <<om[1].is_from_me>>,
     mid |-> IF om = <<>> THEN <<>> ELSE <<om[1].id>>]

\* ON chats.jid = messages.chat_jid AND chats.last_message_time = messages.timestamp
LastMessagesOf(c, msgs) ==
    {m \in msgs : m.chat_jid = c.jid /\ c.last_message_time = <<m.timestamp>>}

\* FROM chats LEFT JOIN messages: one row per joined message, and one row
\* of NULL message columns for a chat that joins none.
LeftJoinLast(msgs, chs) ==
    UNION {IF LastMessagesOf(c, msgs) = {} THEN {ChatRow(c, <<>>)}
           ELSE {ChatRow(c, <<m>>) : m \in LastMessagesOf(c, msgs)} : c \in chs}

\* The Chat a row is scanned into: a last_message_time that does not parse
\* is left nil, without error.
ScanChat(r) ==
    [jid |-> r.jid, name |-> r.name,
     last_message_time |-> IF r.last_message_time # <<>> /\ TimeParse(r.last_message_time[1]).ok
                           THEN <<TimeParse(r.last_message_time[1]).t>> ELSE <<>>,
     last_message |-> r.last_message, last_sender |-> r.last_sender,
     last_is_from_me |-> r.last_is_from_me]
ScanChats(s) == [i \in 1 .. Len(s) |-> ScanChat(s[i])]

\* ORDER BY last_message_time DESC: NULL sorts below every text.
LastKey(r) == IF r.last_message_time = <<>> THEN 0 - 1 ELSE r.last_message_time[1]
RECURSIVE OrderByLastDesc(_)
OrderByLastDesc(rows) ==
    IF rows = {} THEN {<<>>}
    ELSE LET hi == {r \in rows : \A q \in rows : LastKey(r) >= LastKey(q)}
         IN  UNION {{<<r>> \o s : s \in OrderByLastDesc(rows \ {r})} : r \in hi}

\* ORDER BY name: NULL first, then the names in the store's text order.
NameLeq(a, b) ==
    \/ a.name = <<>>
    \/ b.name # <<>> /\ (a.name = b.name \/ TextLess(a.name[1], b.name[1]))
RECURSIVE OrderByName(_)
OrderByName(rows) ==
    IF rows = {} THEN {<<>>}
    ELSE LET lo == {r \in rows : \A q \in rows : NameLeq(r, q)}
         IN  UNION {{<<r>> \o s : s \in OrderByName(rows \ {r})} : r \in lo}

\* As ChatOrder, with the sort_by argument ignored.
ChatOrderByRecency(rows, sortBy) == OrderByLastDesc(rows)

ChatOrder(rows, sortBy) ==
    IF sortBy = "name" THEN OrderByName(rows) ELSE OrderByLastDesc(rows)

\* (LOWER(chats.name) LIKE LOWER(?) OR chats.jid LIKE ?), both '%' + query + '%'
ListChatsWhere(r, query) ==
    \/ query = <<>>
    \/ r.name # <<>> /\ SqlLike(SqlLower(r.name[1]), SqlLower(<<"%">> \o query[1] \o <<"%">>))
    \/ SqlLike(r.jid, <<"%">> \o query[1] \o <<"%">>)

\* The statement names columns of messages although messages is not joined:
\* it is rejected when it is prepared (no such column: messages.content).
NoSuchColumn == [err |-> "no_such_column", chats |-> <<>>]

ListChats(msgs, chs, query, limit, page, includeLastMessage, sortBy) ==
    IF ~includeLastMessage THEN {NoSuchColumn}
    ELSE {[err |-> "none", chats |-> ScanChats(SqlLimit(s, limit, page * limit))] :
            s \in ChatOrder({r \in LeftJoinLast(msgs, chs) : ListChatsWhere(r, query)}, sortBy)}

\* QueryRow(...).Scan: sql.ErrNoRows is answered with nil, nil; of several
\* rows the first in the store's order is scanned.
FirstRow(rows) ==
    IF rows = {} THEN {[err |-> "none", chats |-> <<>>]}
    ELSE {[err |-> "none", chats |-> <<ScanChat(r)>>] : r \in rows}

GetChat(msgs, chs, chatJID, includeLastMessage) ==
    IF ~includeLastMessage THEN {NoSuchColumn}
    ELSE FirstRow({r \in LeftJoinLast(msgs, chs) : r.jid = chatJID})

\* As DirectWhere, without the group clause.
DirectWhereAnyChat(r, fragment) == SqlLike(r.jid, <<"%">> \o fragment \o <<"%">>)

\* WHERE c.jid LIKE '%' + fragment + '%' AND c.jid NOT LIKE '%@g.us'
DirectWhere(r, fragment) ==
    /\ SqlLike(r.jid, <<"%">> \o fragment \o <<"%">>)
    /\ ~SqlLike(r.jid, <<"%", "@", "g", ".", "u", "s">>)

GetDirectChatByContact(msgs, chs, fragment) ==
    FirstRow({r \in LeftJoinLast(msgs, chs) : DirectWhere(r, fragment)})

\* SELECT DISTINCT ... FROM chats c JOIN messages m ON c.jid = m.chat_jid
\* WHERE m.sender = ? OR c.jid = ?: one row per distinct six columns.
ContactRows(msgs, chs, jid) ==
    {[ChatRow(p[1], <<p[2]>>) EXCEPT !.mid = <<>>] :
        p \in {q \in chs \X msgs : /\ q[1].jid = q[2].chat_jid
                                    /\ (q[2].sender = jid \/ q[1].jid = jid)}}

GetContactChats(msgs, chs, jid, limit, page) ==
    {[err |-> "none", chats |-> ScanChats(SqlLimit(s, limit, page * limit))] :
        s \in OrderByLastDesc(ContactRows(msgs, chs, jid))}

\* list_chats(query, limit, page, include_last_message, sort_by)
ListChatsCall(queries, limits, pages, sorts) ==
    /\ call = NoCall
    /\ \E q \in queries, l \in limits, p \in pages, i \in BOOLEAN, s \in sorts :
        /\ call' = [op |-> "listChats", query |-> q, limit |-> l, page |-> p,
                    include_last_message |-> i, sort_by |-> s]
        /\ result' \in ListChats(messages, chats, q, l, p, i, s)
    /\ UNCHANGED <<chats, messages, prev>>

\* get_chat(chat_jid, include_last_message)
GetChatCall(jids) ==
    /\ call = NoCall
    /\ \E j \in jids, i \in BOOLEAN :
        /\ call' = [op |-> "getChat", chat_jid |-> j, include_last_message |-> i]
        /\ result' \in GetChat(messages, chats, j, i)
    /\ UNCHANGED <<chats, messages, prev>>

\* get_direct_chat_by_contact(sender_phone_number)
GetDirectChatByContactCall(fragments) ==
    /\ call = NoCall
    /\ \E f \in fragments :
        /\ call' = [op |-> "getDirectChatByContact", fragment |-> f]
        /\ result' \in GetDirectChatByContact(messages, chats, f)
    /\ UNCHANGED <<chats, messages, prev>>

\* get_contact_chats(jid, limit, page)
GetContactChatsCall(jids, limits, pages) ==
    /\ call = NoCall
    /\ \E j \in jids, l \in limits, p \in pages :
        /\ call' = [op |-> "getContactChats", jid |-> j, limit |-> l, page |-> p]
        /\ result' \in GetContactChats(messages, chats, j, l, p)
    /\ UNCHANGED <<chats, messages, prev>>

(***************************************************************************)
(* SpecChats: three chats (two direct, one group; one direct chat never    *)
(* receives a message) and up to three messages in the other two, read by  *)
(* the four chat queries.                                                  *)
(***************************************************************************)
JidBob == <<"1", "3", "@", "s">>
NameBob == <<"B", "o">>

ChatKeys == {<<JidAlice, "m1">>, <<JidAlice, "m2">>, <<JidGroup, "m3">>}
ChatSenders == {JidAlice, <<"7">>}
ChatContents == {<<"h", "i">>, <<"Y", "o">>}
ChatQueries == Opt({<<"a">>, <<"1">>})
ChatJids == {JidAlice, JidBob, JidGroup, <<"7">>}
\* Fragments of phone numbers.
ChatFragments == {<<"1">>, <<"2">>, <<"3">>}

InitChats ==
    /\ chats = {ChatOf(JidAlice, <<NameAlice>>, <<>>), ChatOf(JidBob, <<NameBob>>, <<>>),
                ChatOf(JidGroup, <<NameGroup>>, <<>>)}
    /\ messages = {}
    /\ call = NoCall
    /\ result = NoResult
    /\ prev = <<>>

ChatsInsert == BridgeInsert(ChatKeys, {0, MaxT}, ChatSenders, ChatContents, MaxMsgs)
ChatsList == ListChatsCall(ChatQueries, {1, MaxLimit}, {0, 1}, {"last_active", "name"})
ChatsGet == GetChatCall(ChatJids)
ChatsDirect == GetDirectChatByContactCall(ChatFragments)
ChatsContact == GetContactChatsCall(ChatJids, {1, MaxMsgs}, {0, 1})

NextChats ==
    \/ ChatsInsert
    \/ ChatsList
    \/ ChatsGet
    \/ ChatsDirect
    \/ ChatsContact
    \/ Reply

SpecChats == InitChats /\ [][NextChats]_vars

(***************************************************************************)
(* Claims on the chat queries.                                             *)
(***************************************************************************)
\* Chat.IsGroup
HasSuffix(s, suffix) ==
    Len(s) >= Len(suffix) /\ SubSeq(s, Len(s) - Len(suffix) + 1, Len(s)) = suffix
IsGroup(c) == HasSuffix(c.jid, <<"@", "g", ".", "u", "s">>)

ChatsOK(op) == call.op = op /\ result.err = "none"
JidsOf(s) == {s[i].jid : i \in 1 .. Len(s)}
StoredChat(jid) == CHOOSE c \in chats : c.jid = jid
ByRecency(s) == \A i \in 1 .. Len(s) - 1 : LastKey(s[i]) >= LastKey(s[i + 1])
NoLastMessage(c) == c.last_message = <<>> /\ c.last_sender = <<>> /\ c.last_is_from_me = <<>>

\* The stored chats whose name or identifier contains the query.
MatchingChats(query) ==
    {c \in chats : \/ query = <<>>
                   \/ c.name # <<>> /\ Contains(c.name[1], query[1])
                   \/ Contains(c.jid, query[1])}

\* out is the page (limit, page) of some listing, most recent first, of the
\* chats of cands: as many chats as the page holds, each chat once.
IsChatPageOf(out, cands, limit, page) ==
    /\ Len(out) = Max(0, Min(limit, Cardinality(cands) - page * limit))
    /\ Cardinality(JidsOf(out)) = Len(out)
    /\ \A i \in 1 .. Len(out) :
         \E c \in cands : /\ out[i].jid = c.jid /\ out[i].name = c.name
                          /\ out[i].last_message_time = c.last_message_time
    /\ ByRecency(out)
    /\ \A i \in 1 .. Len(out) :
         Cardinality({c \in cands : LastKey(c) > LastKey(out[i])}) <= page * limit + i - 1
    /\ \A i \in 1 .. Len(out) :
         Cardinality({c \in cands : LastKey(c) >= LastKey(out[i])}) >= page * limit + i

\* C13: list_chats with the last message included and sort_by other than
\* "name" succeeds with the page [page*limit, page*limit+limit) of the chats
\* whose name or identifier contains the query without regard to case (all
\* chats without query), most recent last message first.
C13_PageOfMatchingChats ==
    (call.op = "listChats" /\ call.include_last_message /\ call.sort_by # "name") =>
        /\ result.err = "none"
        /\ IsChatPageOf(result.chats, MatchingChats(call.query), call.limit, call.page)

\* C14: list_chats with sort_by = "name" returns the chats in the order of
\* their display names (as the store compares text), whatever their
\* last-message timestamps: of two returned chats with different names the
\* one of lesser name comes first.
C14_OrderedByName ==
    (ChatsOK("listChats") /\ call.sort_by = "name") =>
        \A i, j \in 1 .. Len(result.chats) :
            (i < j /\ result.chats[i].name # result.chats[j].name) =>
                /\ result.chats[i].name # <<>> /\ result.chats[j].name # <<>>
                /\ TextLess(result.chats[i].name[1], result.chats[j].name[1])

C14_Witness ==
    /\ ChatsOK("listChats") /\ call.sort_by = "name"
    /\ Len(result.chats) = 2
    /\ result.chats[1].name # result.chats[2].name
    /\ LastKey(result.chats[1]) < LastKey(result.chats[2])

\* C15: list_chats without the last message succeeds with the chats, in the
\* order, of the same call with the last message, the last-message content,
\* sender and is-from-me being absent.
C15_SameChatsWithoutLastMessage ==
    (call.op = "listChats" /\ ~call.include_last_message) =>
        /\ result.err = "none"
        /\ \A i \in 1 .. Len(result.chats) : NoLastMessage(result.chats[i])
        /\ \E o \in ListChats(messages, chats, call.query, call.limit, call.page, TRUE, call.sort_by) :
             /\ Len(o.chats) = Len(result.chats)
             /\ \A i \in 1 .. Len(o.chats) : o.chats[i].jid = result.chats[i].jid

\* C16: get_chat, with or without the last message, succeeds with the chat
\* of the given identifier when the store holds it and with absent when not,
\* never with a chat of another identifier.
C16_ChatOfIdentifier ==
    (call.op = "getChat") =>
        /\ result.err = "none"
        /\ IF \E c \in chats : c.jid = call.chat_jid
           THEN Len(result.chats) = 1 /\ result.chats[1].jid = call.chat_jid
           ELSE result.chats = <<>>

\* The last-message fields of c are those of a stored message of its chat
\* at the chat's last-message timestamp, and absent when there is none.
LastMessageShown(c) ==
    IF LastMessagesOf(StoredChat(c.jid), messages) = {} THEN NoLastMessage(c)
    ELSE \E m \in LastMessagesOf(StoredChat(c.jid), messages) :
            /\ c.last_message = <<m.content>>
            /\ c.last_sender = <<m.sender>>
            /\ c.last_is_from_me = <<m.is_from_me>>

\* C17: every chat returned by list_chats, get_chat,
\* get_direct_chat_by_contact and get_contact_chats shows as last message
\* one message of that chat whose timestamp is the chat's last-message
\* timestamp, and none when the chat has no such message.
C17_LastMessageOfChat ==
    (\E op \in {"listChats", "getChat", "getDirectChatByContact", "getContactChats"} : ChatsOK(op)) =>
        \A i \in 1 .. Len(result.chats) : LastMessageShown(result.chats[i])

\* C18: get_contact_chats returns no chat identifier twice, however many
\* messages the chat holds: its limit counts chats.
C18_DistinctChats ==
    ChatsOK("getContactChats") => Cardinality(JidsOf(result.chats)) = Len(result.chats)

\* The chats of the contact jid: the chat jid itself and every chat with a
\* message sent by jid.
ChatsOfContact(jid) ==
    {c \in chats : c.jid = jid \/ \E m \in messages : m.chat_jid = c.jid /\ m.sender = jid}

\* C19: get_contact_chats with a limit that holds every result returns the
\* chat of identifier jid (also when it holds no message) and every chat
\* with a message sent by jid, no other chat, most recent last message
\* first.
C19_ChatsOfContact ==
    (call.op = "getContactChats" /\ call.page = 0 /\ call.limit >= Cardinality(messages) + Cardinality(chats)) =>
        /\ result.err = "none"
        /\ JidsOf(result.chats) = {c.jid : c \in ChatsOfContact(call.jid)}
        /\ ByRecency(result.chats)

\* The direct chats whose identifier contains the fragment.
DirectChats(fragment) == {c \in chats : Contains(c.jid, fragment) /\ ~IsGroup(c)}

\* C20: get_direct_chat_by_contact(fragment), for a fragment of a phone
\* number, succeeds with a chat whose identifier contains the fragment and
\* that is no group, and with absent exactly when the store holds no such
\* chat: a group whose identifier contains the fragment is never returned.
C20_DirectChatOnly ==
    (call.op = "getDirectChatByContact") =>
        /\ result.err = "none"
        /\ IF DirectChats(call.fragment) = {} THEN result.chats = <<>>
           ELSE /\ Len(result.chats) = 1
                /\ result.chats[1].jid \in {c.jid : c \in DirectChats(call.fragment)}

C20_Witness ==
    /\ call.op = "getDirectChatByContact"
    /\ \E c \in chats : IsGroup(c) /\ Contains(c.jid, call.fragment)
    /\ result.chats = <<>>

(***************************************************************************)
(* getSenderName and formatMessage.                                        *)
(***************************************************************************)
\* strings.Split(s, "@")[0]: the text before the first "@", all of s
\* without "@".
RECURSIVE LocalPart(_)
LocalPart(s) ==
    IF s = <<>> \/ Head(s) = "@" THEN <<>> ELSE <<Head(s)>> \o LocalPart(Tail(s))

\* QueryRow("SELECT name ...").Scan(&name) followed by the test
\* err == nil && name != "": the names that one row of rows can give, and
\* None when there is no row or the row's name is NULL or empty.
None == <<>>
ScanName(rows) ==
    IF rows = {} THEN {None}
    ELSE {IF r.name # <<>> /\ r.name[1] # <<>> THEN r.name ELSE None : r \in rows}

\* As ExactRows, with the first lookup finding nothing.
ExactRowsSkipped(chs, senderJID) == {}

\* SELECT name FROM chats WHERE jid = ? LIMIT 1
ExactRows(chs, senderJID) == {c \in chs : c.jid = senderJID}

\* SELECT name FROM chats WHERE jid LIKE '%' + phonePart + '%' LIMIT 1
PartRows(chs, senderJID) ==
    {c \in chs : SqlLike(c.jid, <<"%">> \o LocalPart(senderJID) \o <<"%">>)}

\* As GetSenderName, with the store's failure returned as an error.
GetSenderNameFailing(chs, senderJID, store) ==
    IF store # "ok" THEN {[err |-> "store", name |-> <<>>]}
    ELSE {[err |-> "none", name |-> senderJID]}

\* getSenderName(senderJID): a store that cannot be opened or queried makes
\* every test fail, and the input is returned.
GetSenderName(chs, senderJID, store) ==
    IF store # "ok" THEN {[err |-> "none", name |-> senderJID]}
    ELSE UNION {IF first # None THEN {[err |-> "none", name |-> first[1]]}
                ELSE {[err |-> "none", name |-> IF second # None THEN second[1] ELSE senderJID] :
                        second \in ScanName(PartRows(chs, senderJID))} :
                  first \in ScanName(ExactRows(chs, senderJID))}

\* time.Format("2006-01-02 15:04:05"), as far as the model tells times apart.
Digits == <<"0", "1", "2", "3", "4", "5", "6", "7", "8", "9">>
FormatTime(t) == <<Digits[(t % 10) + 1], ":", "0", "0">>

\* As ChatInfo, with the showChatInfo argument ignored.
ChatInfoAlways(message, showChatInfo) ==
    IF message.chat_name # <<>>
    THEN <<"C", "h", "a", "t", ":", " ">> \o message.chat_name[1] \o <<" ">>
    ELSE <<>>

\* "Chat: %s " after the timestamp bracket
ChatInfo(message, showChatInfo) ==
    IF showChatInfo /\ message.chat_name # <<>>
    THEN <<"C", "h", "a", "t", ":", " ">> \o message.chat_name[1] \o <<" ">>
    ELSE <<>>

\* "[%s - Message ID: %s - Chat JID: %s] "
ContentPrefix(message) ==
    IF message.media_type # <<>> /\ message.media_type[1] # <<>>
    THEN <<"[">> \o message.media_type[1]
         \o <<" ", "-", " ", "M", "e", "s", "s", "a", "g", "e", " ", "I", "D", ":", " ">>
         \o <<message.id>>
         \o <<" ", "-", " ", "C", "h", "a", "t", " ", "J", "I", "D", ":", " ">>
         \o message.chat_jid \o <<"]", " ">>
    ELSE <<>>

\* formatMessage(message, showChatInfo)
FormatMessage(chs, message, showChatInfo, store) ==
    {[err |-> "none", sender_name |-> n,
      out |-> <<"[">> \o FormatTime(message.timestamp) \o <<"]", " ">>
              \o ChatInfo(message, showChatInfo)
              \o <<"F", "r", "o", "m", ":", " ">> \o n \o <<":", " ">>
              \o ContentPrefix(message) \o message.content \o <<"\n">>] :
        n \in IF message.is_from_me THEN {<<"M", "e">>}
              ELSE {o.name : o \in GetSenderName(chs, message.sender, store)}}

\* getSenderName(senderJID)
GetSenderNameCall(senders, stores) ==
    /\ call = NoCall
    /\ \E s \in senders, st \in stores :
        /\ call' = [op |-> "getSenderName", sender |-> s, store |-> st]
        /\ result' \in GetSenderName(chats, s, st)
    /\ UNCHANGED <<chats, messages, prev>>

\* formatMessage(message, showChatInfo)
FormatMessageCall(msgs, stores) ==
    /\ call = NoCall
    /\ \E m \in msgs, show \in BOOLEAN, st \in stores :
        /\ call' = [op |-> "formatMessage", message |-> m, show_chat_info |-> show, store |-> st]
        /\ result' \in FormatMessage(chats, m, show, st)
    /\ UNCHANGED <<chats, messages, prev>>

(***************************************************************************)
(* SpecResolve: getSenderName and formatMessage on stores of three chats   *)
(* of which two may have no name, an empty name or the name "Chat", the    *)
(* store being available or not.                                           *)
(***************************************************************************)
NameChat == <<"C", "h", "a", "t">>
Stores == {"ok", "unavailable"}
ResolveSenders == {<<"1">>, JidAlice, <<"3", "@", "s">>, <<"9", "@", "s">>, <<"2">>}
ResolveContents == {<<"h", "i">>, <<"C", "h", "a", "t", ":">>}
ResolveMedia == {<<>>, <<<<>>>>, <<<<"i", "m", "g">>>>}
ResolveMessages ==
    {[chat_jid |-> JidAlice, id |-> "m1", timestamp |-> t, sender |-> s, content |-> c,
      is_from_me |-> f, media_type |-> k, chat_name |-> n] :
        t \in {MaxT}, s \in {JidAlice, <<"9", "@", "s">>}, c \in ResolveContents,
        f \in BOOLEAN, k \in ResolveMedia, n \in Opt({NameAlice})}

InitResolve ==
    /\ \E a \in {<<>>, <<NameAlice>>, <<NameChat>>}, b \in {<<>>, <<<<>>>>, <<NameBob>>} :
         chats = {ChatOf(JidAlice, a, <<>>), ChatOf(JidBob, b, <<>>),
                  ChatOf(JidGroup, <<NameGroup>>, <<>>)}
    /\ messages = {}
    /\ call = NoCall
    /\ result = NoResult
    /\ prev = <<>>

ResolveName == GetSenderNameCall(ResolveSenders, Stores)
ResolveFormat == FormatMessageCall(ResolveMessages, Stores)

NextResolve == ResolveName \/ ResolveFormat \/ Reply

SpecResolve == InitResolve /\ [][NextResolve]_vars

(***************************************************************************)
(* Claims on getSenderName and formatMessage.                              *)
(***************************************************************************)
\* q occurs in s as a substring, character for character.
HasSubstring(s, q) ==
    \E k \in 0 .. Len(s) - Len(q) : \A i \in 1 .. Len(q) : s[k + i] = q[i]
Named(c) == c.name # <<>> /\ c.name[1] # <<>>
\* The chats whose identifier contains the local part of the sender.
ChatsOfLocalPart(sender) == {c \in chats : HasSubstring(c.jid, LocalPart(sender))}

\* C21: getSenderName returns a string and never fails, whatever the input
\* and the store, a store that cannot be opened or queried included; it
\* returns senderID itself when no chat identifier equals senderID and none
\* contains its local part.
C21_ResolveTotal ==
    (call.op = "getSenderName") =>
        /\ result.err = "none"
        /\ result.name \in Seq({Ascii[i] : i \in 1 .. Len(Ascii)})
        /\ (call.store # "ok" \/ ChatsOfLocalPart(call.sender) = {}) => result.name = call.sender

C21_Witness ==
    /\ call.op = "getSenderName" /\ call.store # "ok"
    /\ \E c \in chats : c.jid = call.sender /\ Named(c)
    /\ result.name = call.sender

\* C22 as stated: without named chat of that identifier, the name of a
\* named chat whose identifier contains the local part is returned whenever
\* there is one.
C22_NamedChatWins ==
    (call.op = "getSenderName" /\ call.store = "ok") =>
        IF \E c \in chats : c.jid = call.sender /\ Named(c)
        THEN \E c \in chats : c.jid = call.sender /\ result.name = c.name[1]
        ELSE IF \E c \in ChatsOfLocalPart(call.sender) : Named(c)
             THEN \E c \in ChatsOfLocalPart(call.sender) : Named(c) /\ result.name = c.name[1]
             ELSE result.name = call.sender

\* C22: getSenderName returns the name of the chat whose identifier equals
\* senderID when that name is non-empty, also when other identifiers contain
\* the local part; otherwise it looks at one chat whose identifier contains
\* the local part (which one is not specified) and returns that chat's name
\* when it is non-empty, and senderID when it is empty or no chat is found.
C22_TwoStageLookup ==
    (call.op = "getSenderName" /\ call.store = "ok") =>
        IF \E c \in chats : c.jid = call.sender /\ Named(c)
        THEN \E c \in chats : c.jid = call.sender /\ result.name = c.name[1]
        ELSE \/ \E c \in ChatsOfLocalPart(call.sender) : Named(c) /\ result.name = c.name[1]
             \/ /\ \A c \in ChatsOfLocalPart(call.sender) : Named(c) => result.name # c.name[1]
                /\ (ChatsOfLocalPart(call.sender) = {} \/ \E c \in ChatsOfLocalPart(call.sender) : ~Named(c))
                /\ result.name = call.sender

C22_Witness ==
    /\ call.op = "getSenderName" /\ call.store = "ok"
    /\ \E c \in chats : c.jid = call.sender /\ Named(c) /\ result.name = c.name[1]
    /\ \E c \in ChatsOfLocalPart(call.sender) : c.jid # call.sender /\ Named(c)

ChatColon == <<"C", "h", "a", "t", ":">>
\* The text that follows the timestamp bracket "[....] ".
AfterBracket(out) == SubSeq(out, Len(FormatTime(0)) + 4, Len(out))
HasChatInfo(out) == SubSeq(AfterBracket(out), 1, Len(ChatColon)) = ChatColon
ChatInfoExactly ==
    HasChatInfo(result.out) <=> (call.show_chat_info /\ call.message.chat_name # <<>>)

\* C27 as stated: the line of showChatInfo = false never contains "Chat:".
C27_NeverChatColon ==
    (call.op = "formatMessage") =>
        /\ ChatInfoExactly
        /\ ~call.show_chat_info => ~HasSubstring(result.out, ChatColon)

\* C27: the chat-info part "Chat: <name> " follows the timestamp bracket
\* exactly when showChatInfo is true and the chat name is known; with
\* showChatInfo = false the line contains "Chat:" only where the content,
\* the media kind or the sender's name followed by its colon brings it.
C27_ChatInfoOnlyWhenShown ==
    (call.op = "formatMessage") =>
        /\ ChatInfoExactly
        /\ (~call.show_chat_info /\ HasSubstring(result.out, ChatColon)) =>
             \/ HasSubstring(call.message.content, ChatColon)
             \/ HasSubstring(ContentPrefix(call.message), ChatColon)
             \/ HasSubstring(result.sender_name \o <<":">>, ChatColon)

C27_Witness ==
    /\ call.op = "formatMessage" /\ ~call.show_chat_info
    /\ call.message.chat_name # <<>> /\ call.message.media_type = <<<<"i", "m", "g">>>>
    /\ ~HasSubstring(result.out, ChatColon)

(***************************************************************************)
(* searchContacts and the tool handlers.                                   *)
(***************************************************************************)
ContactLimit == 50

\* WHERE (LOWER(name) LIKE LOWER(?) OR LOWER(jid) LIKE LOWER(?))
\*   AND jid NOT LIKE '%@g.us', the pattern being '%' + query + '%'
ContactWhere(c, query) ==
    /\ \/ c.name # <<>> /\ SqlLike(SqlLower(c.name[1]), SqlLower(<<"%">> \o query \o <<"%">>))
       \/ SqlLike(SqlLower(c.jid), SqlLower(<<"%">> \o query \o <<"%">>))
    /\ ~SqlLike(c.jid, <<"%", "@", "g", ".", "u", "s">>)

\* ORDER BY name, jid
ContactLeq(a, b) ==
    IF a.name = b.name THEN a.jid = b.jid \/ TextLess(a.jid, b.jid) ELSE NameLeq(a, b)
RECURSIVE OrderByNameJid(_)
OrderByNameJid(rows) ==
    IF rows = {} THEN <<>>
    ELSE LET r == CHOOSE x \in rows : \A q \in rows : ContactLeq(x, q)
         IN  <<r>> \o OrderByNameJid(rows \ {r})

\* The Contact a row is scanned into.
ContactOf(r) == [phone_number |-> LocalPart(r.jid), name |-> r.name, jid |-> r.jid]

\* searchContacts(query)
SearchContacts(chs, query) ==
    LET rows == {[jid |-> c.jid, name |-> c.name] : c \in {x \in chs : ContactWhere(x, query)}}
        page == SqlLimit(OrderByNameJid(rows), ContactLimit, 0)
    IN  {[err |-> "none", contacts |-> [i \in 1 .. Len(page) |-> ContactOf(page[i])]]}

\* The operation's outcomes when the store cannot be opened or queried:
\* openDB or the first query returns the error.
WithStore(store, outcomes) == IF store = "ok" THEN outcomes ELSE {[err |-> "store"]}

\* if param == "" { return mcp.NewToolResultError("... parameter is required"), nil }
Required(param, outcomes) ==
    IF param = <<>> THEN {[err |-> "missing_parameter"]} ELSE outcomes

\* As ToolResult, with the operation's error returned as the handler's error.
ToolResultPropagating(o) ==
    [returns |-> IF o.err = "none" THEN "result" ELSE "protocol_error",
     is_error |-> FALSE, core |-> o]

\* return mcp.NewToolResultError(...), nil / return mcp.NewToolResultText(...), nil
ToolResult(o) == [returns |-> "result", is_error |-> o.err # "none", core |-> o]

\* As Invoke, the handler touching the chat rows it reads.
InvokeTouching(request, outcomes) ==
    /\ call = NoCall
    /\ call' = request
    /\ result' \in {ToolResult(o) : o \in outcomes}
    /\ chats' = {ChatOf(c.jid, c.name, <<>>) : c \in chats}
    /\ UNCHANGED <<messages, prev>>

\* One request served by a handler registered with s.AddTool: the store is
\* read and a tool result is returned.
Invoke(request, outcomes) ==
    /\ call = NoCall
    /\ call' = request
    /\ result' \in {ToolResult(o) : o \in outcomes}
    /\ UNCHANGED <<chats, messages, prev>>

search_contacts(queries, stores) ==
    \E q \in queries, st \in stores :
        Invoke([op |-> "search_contacts", query |-> q, store |-> st],
               Required(q, WithStore(st, SearchContacts(chats, q))))

list_messages(filters, limits, pages, ctxs, stores) ==
    \E f \in filters, l \in limits, p \in pages, c \in ctxs, st \in stores :
        Invoke([op |-> "list_messages", filter |-> f, limit |-> l, page |-> p,
                include_context |-> c.include, context_before |-> c.before,
                context_after |-> c.after, store |-> st],
               WithStore(st, ListMessages(messages, chats, f.after, f.before, f.sender,
                                          f.chat_jid, f.query, l, p,
                                          c.include, c.before, c.after)))

list_chats(queries, limits, pages, sorts, stores) ==
    \E q \in queries, l \in limits, p \in pages, i \in BOOLEAN, s \in sorts, st \in stores :
        Invoke([op |-> "list_chats", query |-> q, limit |-> l, page |-> p,
                include_last_message |-> i, sort_by |-> s, store |-> st],
               WithStore(st, ListChats(messages, chats, q, l, p, i, s)))

get_chat(jids, stores) ==
    \E j \in jids, i \in BOOLEAN, st \in stores :
        Invoke([op |-> "get_chat", chat_jid |-> j, include_last_message |-> i, store |-> st],
               Required(j, WithStore(st, GetChat(messages, chats, j, i))))

get_direct_chat_by_contact(fragments, stores) ==
    \E f \in fragments, st \in stores :
        Invoke([op |-> "get_direct_chat_by_contact", fragment |-> f, store |-> st],
               Required(f, WithStore(st, GetDirectChatByContact(messages, chats, f))))

get_contact_chats(jids, limits, pages, stores) ==
    \E j \in jids, l \in limits, p \in pages, st \in stores :
        Invoke([op |-> "get_contact_chats", jid |-> j, limit |-> l, page |-> p, store |-> st],
               Required(j, WithStore(st, GetContactChats(messages, chats, j, l, p))))

get_last_interaction(jids, stores) ==
    \E j \in jids, st \in stores :
        Invoke([op |-> "get_last_interaction", jid |-> j, store |-> st],
               Required(j, WithStore(st, GetLastInteraction(messages, chats, j))))

get_message_context(ids, counts, stores) ==
    \E id \in ids, b \in counts, a \in counts, st \in stores :
        Invoke([op |-> "get_message_context", message_id |-> id, before |-> b,
                after |-> a, store |-> st],
               Required(IF id = "" THEN <<>> ELSE <<id>>,
                        WithStore(st, GetMessageContext(messages, chats, id, b, a))))

(***************************************************************************)
(* SpecTools: the eight reading tools and getSenderName on the store of    *)
(* SpecChats, the store being available or not and required parameters     *)
(* being supplied or empty.                                                *)
(***************************************************************************)
ToolTexts == {<<>>, <<"a">>, <<"1">>, <<"_">>}
ToolJids == {<<>>, JidAlice, JidGroup, <<"7">>}
ToolFilters == {NoFilter, [NoFilter EXCEPT !.after = <<MalformedTime>>]}

ToolsInsert == BridgeInsert(ChatKeys, {0, MaxT}, ChatSenders, {<<"h", "i">>}, MaxMsgs)
ToolsSearch == search_contacts(ToolTexts, Stores)
ToolsMessages == list_messages(ToolFilters, {1}, {0}, ListContextArgs, Stores)
ToolsChats == list_chats(Opt({<<"a">>}), {MaxLimit}, {0}, {"last_active", "name"}, Stores)
ToolsChat == get_chat(ToolJids, Stores)
ToolsDirect == get_direct_chat_by_contact({<<>>, <<"1">>, <<"2">>}, Stores)
ToolsContact == get_contact_chats(ToolJids, {MaxMsgs}, {0}, Stores)
ToolsLast == get_last_interaction(ToolJids, Stores)
ToolsContext == get_message_context({"", "m1", "m9"}, {1}, Stores)
ToolsResolve == GetSenderNameCall({JidAlice, <<"7">>}, Stores)

NextTools ==
    \/ ToolsInsert
    \/ ToolsSearch
    \/ ToolsMessages
    \/ ToolsChats
    \/ ToolsChat
    \/ ToolsDirect
    \/ ToolsContact
    \/ ToolsLast
    \/ ToolsContext
    \/ ToolsResolve
    \/ Reply

SpecTools == InitChats /\ [][NextTools]_vars

(***************************************************************************)
(* Claims on searchContacts and the tool handlers.                         *)
(***************************************************************************)
ToolNames ==
    {"search_contacts", "list_messages", "list_chats", "get_chat",
     "get_direct_chat_by_contact", "get_contact_chats", "get_last_interaction",
     "get_message_context"}
Contacts == result.core.contacts

\* C23: search_contacts returns projections of non-group chats only: every
\* contact's jid is that of a stored chat without the suffix "@g.us" whose
\* name or identifier contains the query without regard to case, its
\* phone number is the jid's text before "@", no jid comes twice and there
\* are at most 50 contacts.
C23_ContactsOfMatchingChats ==
    (call.op = "search_contacts" /\ result.core.err = "none") =>
        /\ \A i \in 1 .. Len(Contacts) :
             /\ \E c \in chats :
                  /\ c.jid = Contacts[i].jid /\ ~IsGroup(c)
                  /\ \/ c.name # <<>> /\ Contains(c.name[1], call.query)
                     \/ Contains(c.jid, call.query)
             /\ Contacts[i].phone_number = LocalPart(Contacts[i].jid)
        /\ Cardinality(JidsOf(Contacts)) = Len(Contacts)
        /\ Len(Contacts) <= ContactLimit

\* C24: no invocation of a tool or of getSenderName, successful or failed,
\* changes the store's chats or messages.
C24_ReadOnly == [][call' # call => UNCHANGED <<chats, messages>>]_vars

C24_Witness ==
    /\ call.op \in ToolNames /\ messages # {}
    /\ result.is_error

\* C25: every handler returns a tool result for every request: a failure
\* of the operation (store not available, query error, invalid date,
\* message not found, required parameter missing) becomes an error result,
\* never an error of the handler itself.
C25_AlwaysToolResult ==
    (call.op \in ToolNames) =>
        /\ result.returns = "result"
        /\ result.is_error <=> result.core.err # "none"

C25_Witness ==
    /\ call.op = "list_messages" /\ call.store = "ok"
    /\ result.returns = "result" /\ result.is_error

\* C28: list_chats with the last message returns each chat at most once,
\* also when several messages of a chat carry the chat's last-message
\* timestamp: no identifier comes twice in a page, and the limit counts
\* chats.
C28_EachChatOnce ==
    (ChatsOK("listChats") /\ call.include_last_message) =>
        \A i, j \in 1 .. Len(result.chats) :
            result.chats[i].jid = result.chats[j].jid => i = j

\* C29: each window that list_messages builds with includeContext is the
\* window of the matched message itself: every returned row is of the chat
\* of a matched message, also when another chat holds a message of the same
\* identifier.
C29_WindowOfMatchedMessage ==
    (ListOK /\ call.include_context) =>
        \A i \in 1 .. Len(result.out) :
            \E j \in 1 .. Len(result.matched) :
                result.out[i].chat_jid = result.matched[j].chat_jid

(***************************************************************************)
(* The operations step by step: each opens its own connection, reads, and  *)
(* returns through its deferred Close, while the bridge writes and another *)
(* invocation runs.  call/result hold the invocation of getMessageContext  *)
(* or listMessages, prev holds a concurrent invocation of getSenderName.   *)
(***************************************************************************)
\* As BridgeInsert, at any moment of a running invocation.
BridgeInsertConcurrent(keys, times, senders, contents, maxMsgs) ==
    /\ Cardinality(messages) < maxMsgs
    /\ \E k \in keys, ts \in times, s \in senders, c \in contents :
         /\ \A m \in messages : <<m.chat_jid, m.id>> # k
         /\ \E ch \in chats : ch.jid = k[1]
         /\ messages' = messages \cup {MessageOf(k[1], k[2], ts, s, c, FALSE, <<>>)}
         /\ chats' = {IF ch.jid = k[1] THEN ChatOf(ch.jid, ch.name, <<ts>>) ELSE ch :
                         ch \in chats}
    /\ UNCHANGED <<call, result, prev>>

\* As Return, the connection staying open.
ReturnLeaking(c) == [c EXCEPT !.pc = "done"]

\* The function returns: its deferred db.Close() runs.
Return(c) == [c EXCEPT !.pc = "done", !.open = c.open - 1]

\* db, err := openDB() of getMessageContext
ContextOpen(ids, counts, stores) ==
    /\ call = NoCall
    /\ \E id \in ids, b \in counts, a \in counts, st \in stores :
        /\ call' = [op |-> "getMessageContext", message_id |-> id, before |-> b, after |-> a,
                    store |-> st, pc |-> IF st = "ok" THEN "target" ELSE "done",
                    open |-> IF st = "ok" THEN 1 ELSE 0]
        /\ result' = NoContext(IF st = "ok" THEN "none" ELSE "store", <<>>)
    /\ UNCHANGED <<chats, messages, prev>>

\* The target query and the parse of its timestamp.
ContextTarget ==
    /\ call # NoCall /\ call.op = "getMessageContext" /\ call.pc = "target"
    /\ LET targets == {r \in JoinedRows(messages, chats) : r.id = call.message_id}
       IN  IF targets = {}
           THEN call' = Return(call) /\ result' = NoContext("not_found", <<call.message_id>>)
           ELSE \E t \in targets :
                   IF TimeParse(t.timestamp).ok
                   THEN /\ call' = [call EXCEPT !.pc = "before"]
                        /\ result' = [result EXCEPT !.message = <<t>>]
                   ELSE call' = Return(call) /\ result' = NoContext("parse", <<>>)
    /\ UNCHANGED <<chats, messages, prev>>

\* The before query and its row loop.
ContextBefore ==
    /\ call # NoCall /\ call.op = "getMessageContext" /\ call.pc = "before"
    /\ \E b \in BeforeRows(JoinedRows(messages, chats), result.message[1], call.before) :
         IF AllParse(b)
         THEN call' = [call EXCEPT !.pc = "after"] /\ result' = [result EXCEPT !.before = b]
         ELSE call' = Return(call) /\ result' = NoContext("parse", <<>>)
    /\ UNCHANGED <<chats, messages, prev>>

\* As AfterRead, the rows not earlier than the target.
AfterReadInclusive(msgs, chs, target, n) ==
    {SqlLimit(s, n, 0) :
        s \in OrderAsc({r \in JoinedRows(msgs, chs) : /\ r.chat_jid = target.chat_jid
                                                      /\ r.timestamp >= target.timestamp})}

\* The after query on the store as it is when the query runs.
AfterRead(msgs, chs, target, n) == AfterRows(JoinedRows(msgs, chs), target, n)

\* The after query and its row loop; the function returns.
ContextAfter ==
    /\ call # NoCall /\ call.op = "getMessageContext" /\ call.pc = "after"
    /\ \E a \in AfterRead(messages, chats, result.message[1], call.after) :
         /\ call' = Return(call)
         /\ result' = IF AllParse(a) THEN [result EXCEPT !.after = a]
                      ELSE NoContext("parse", <<>>)
    /\ UNCHANGED <<chats, messages, prev>>

\* db, err := openDB() of listMessages (no filter, page 0)
ListOpen(limits, ctxs, stores) ==
    /\ call = NoCall
    /\ \E l \in limits, c \in ctxs, st \in stores :
        /\ call' = [op |-> "listMessages", limit |-> l, include_context |-> c.include,
                    context_before |-> c.before, context_after |-> c.after,
                    store |-> st, pc |-> IF st = "ok" THEN "rows" ELSE "done",
                    open |-> IF st = "ok" THEN 1 ELSE 0, todo |-> <<>>, names |-> 0]
        /\ result' = ListError(IF st = "ok" THEN "none" ELSE "store", "", <<>>, 0)
    /\ UNCHANGED <<chats, messages, prev>>

\* The query and its row loop.
ListRows ==
    /\ call # NoCall /\ call.op = "listMessages" /\ call.pc = "rows"
    /\ \E o \in ListMessages(messages, chats, <<>>, <<>>, <<>>, <<>>, <<>>,
                             call.limit, 0, FALSE, 0, 0) :
         IF o.err # "none" THEN call' = Return(call) /\ result' = o
         ELSE IF call.include_context /\ Len(o.out) > 0
         THEN /\ call' = [call EXCEPT !.pc = "context", !.todo = o.out]
              /\ result' = [o EXCEPT !.out = <<>>]
         ELSE /\ call' = [call EXCEPT !.pc = "format", !.names = Len(o.out)]
              /\ result' = o
    /\ UNCHANGED <<chats, messages, prev>>

\* getMessageContext(msg.ID, ...) is entered for the next matched message:
\* it opens its own connection.
ListContextOpen ==
    /\ call # NoCall /\ call.op = "listMessages" /\ call.pc = "context"
    /\ call.todo # <<>> /\ call.open = 1
    /\ call' = [call EXCEPT !.open = 2]
    /\ UNCHANGED <<chats, messages, result, prev>>

\* The nested getMessageContext returns (its connection is closed); its
\* window is appended, an error is passed over (continue).
ListContextReturn ==
    /\ call # NoCall /\ call.op = "listMessages" /\ call.pc = "context" /\ call.open = 2
    /\ \E o \in GetMessageContext(messages, chats, Head(call.todo).id,
                                  call.context_before, call.context_after) :
         LET out == IF o.err = "none" THEN result.out \o o.before \o o.message \o o.after
                    ELSE result.out
         IN  /\ result' = [result EXCEPT !.out = out]
             /\ call' = IF Tail(call.todo) = <<>>
                        THEN [call EXCEPT !.open = 1, !.todo = <<>>, !.pc = "format",
                                          !.names = Len(out)]
                        ELSE [call EXCEPT !.open = 1, !.todo = Tail(call.todo)]
    /\ UNCHANGED <<chats, messages, prev>>

\* formatMessage enters getSenderName for the next line: it opens its own
\* connection.
ListNameOpen ==
    /\ call # NoCall /\ call.op = "listMessages" /\ call.pc = "format"
    /\ call.names > 0 /\ call.open = 1
    /\ call' = [call EXCEPT !.open = 2]
    /\ UNCHANGED <<chats, messages, result, prev>>

\* The nested getSenderName returns.
ListNameReturn ==
    /\ call # NoCall /\ call.op = "listMessages" /\ call.pc = "format" /\ call.open = 2
    /\ call' = [call EXCEPT !.open = 1, !.names = call.names - 1]
    /\ UNCHANGED <<chats, messages, result, prev>>

\* return formatMessagesList(...), nil
ListReturn ==
    /\ call # NoCall /\ call.op = "listMessages" /\ call.pc = "format"
    /\ call.names = 0 /\ call.open = 1
    /\ call' = Return(call)
    /\ UNCHANGED <<chats, messages, result, prev>>

\* db, err := openDB() of a concurrent getSenderName: an error is logged and
\* the input returned.
NameOpen(senders, stores) ==
    /\ prev = <<>>
    /\ \E s \in senders, st \in stores :
        prev' = <<[op |-> "getSenderName", sender |-> s, store |-> st, err |-> "none",
                   pc |-> IF st = "ok" THEN "lookup" ELSE "done",
                   open |-> IF st = "ok" THEN 1 ELSE 0,
                   name |-> IF st = "ok" THEN <<>> ELSE <<s>>]>>
    /\ UNCHANGED <<chats, messages, call, result>>

\* The two lookups; the function returns.
NameLookup ==
    /\ prev # <<>> /\ prev[1].pc = "lookup"
    /\ \E o \in GetSenderName(chats, prev[1].sender, "ok") :
         prev' = <<[Return(prev[1]) EXCEPT !.name = <<o.name>>]>>
    /\ UNCHANGED <<chats, messages, call, result>>

\* A finished invocation leaves.
StepReply ==
    /\ \/ /\ call # NoCall /\ call.pc = "done"
          /\ call' = NoCall /\ result' = NoResult /\ UNCHANGED prev
       \/ /\ prev # <<>> /\ prev[1].pc = "done"
          /\ prev' = <<>> /\ UNCHANGED <<call, result>>
    /\ UNCHANGED <<chats, messages>>

(***************************************************************************)
(* SpecSteps: up to three messages in two chats, one identifier in both.   *)
(***************************************************************************)
StepKeys == {<<JidAlice, "m1">>, <<JidAlice, "m2">>, <<JidGroup, "m1">>}

StepsInsert == BridgeInsertConcurrent(StepKeys, ValidTimes, {<<"1">>}, {<<"h", "i">>}, MaxMsgs)
StepsContextOpen == ContextOpen({"m1", "m2"}, {1, MaxCtx}, Stores)
StepsListOpen == ListOpen({MaxLimit}, ListContextArgs, Stores)
StepsNameOpen == NameOpen({<<"1">>}, Stores)

NextSteps ==
    \/ StepsInsert
    \/ StepsContextOpen
    \/ ContextTarget
    \/ ContextBefore
    \/ ContextAfter
    \/ StepsListOpen
    \/ ListRows
    \/ ListContextOpen
    \/ ListContextReturn
    \/ ListNameOpen
    \/ ListNameReturn
    \/ ListReturn
    \/ StepsNameOpen
    \/ NameLookup
    \/ StepReply

SpecSteps == Init /\ [][NextSteps]_vars

(***************************************************************************)
(* Claims on connections and on interleaved reads.                         *)
(***************************************************************************)
\* The invocations in progress or just finished, each with its outcome.
Invocations ==
    (IF call = NoCall THEN {} ELSE {[inv |-> call, err |-> result.err]})
    \cup {[inv |-> prev[i], err |-> prev[i].err] : i \in 1 .. Len(prev)}

\* Every finished invocation has closed each connection it opened, its own
\* and those of the invocations nested in it.
AllReleased ==
    \A i \in Invocations :
        /\ i.inv.open \in 0 .. 2
        /\ i.inv.pc = "done" => i.inv.open = 0
        /\ i.inv.store # "ok" => i.inv.pc = "done"

\* C26 as stated: every operation whose connection cannot be opened returns
\* that failure as its error.
C26_OpenFailureReturned ==
    /\ AllReleased
    /\ \A i \in Invocations : i.inv.store # "ok" => i.err = "store"

\* C26: every operation opens its own connection and closes it before it
\* returns, on success and on error, the connections that getMessageContext
\* and getSenderName open inside listMessages included; a failure to open is
\* the error of the operation, except for getSenderName, which returns its
\* input and no error.
C26_ConnectionsReleased ==
    /\ AllReleased
    /\ \A i \in Invocations :
         i.inv.store # "ok" =>
            IF i.inv.op = "getSenderName"
            THEN i.err = "none" /\ i.inv.name = <<i.inv.sender>>
            ELSE i.err = "store"

C26_Witness ==
    /\ call # NoCall /\ call.op = "listMessages" /\ call.pc = "done"
    /\ call.include_context /\ Len(result.out) > 1 /\ call.open = 0
    /\ prev # <<>> /\ prev[1].open = 1

\* C30: whatever the bridge inserts between the three reads of
\* getMessageContext, a successful result has every message of before
\* strictly earlier than the target and every message of after strictly
\* later, all of them in the target's chat, at most `before` and `after` of
\* them.
C30_WindowsAroundTarget ==
    (call # NoCall /\ call.op = "getMessageContext" /\ call.pc = "done" /\ result.err = "none") =>
        /\ Len(result.before) <= call.before /\ Len(result.after) <= call.after
        /\ \A i \in 1 .. Len(result.before) :
             /\ result.before[i].timestamp < Target.timestamp
             /\ result.before[i].chat_jid = Target.chat_jid
        /\ \A i \in 1 .. Len(result.after) :
             /\ result.after[i].timestamp > Target.timestamp
             /\ result.after[i].chat_jid = Target.chat_jid

\* A message earlier than the target came into the target's chat after the
\* before query had run: the successful result misses it.
C30_Witness ==
    /\ call # NoCall /\ call.op = "getMessageContext" /\ call.pc = "done"
    /\ result.err = "none" /\ result.before = <<>>
    /\ call.before > 0
    /\ \E m \in messages : m.chat_jid = Target.chat_jid /\ m.timestamp < Target.timestamp

====
